---- MODULE Spec2Model ----
(***************************************************************************)
(* A model of src/app.py (Ollamize): the text chunker chunk_text, the      *)
(* completion client call_ollama, the summarizer                           *)
(* summarize_long_text_iterative, the /summarize request handler and the   *)
(* DOCX extractor's temporary file.                                        *)
(*                                                                         *)
(* Strings are sequences of characters.  Indices in the definitions that   *)
(* model Python code are 0-based, as in the source; At and Slice convert.  *)
(***************************************************************************)
EXTENDS Integers, Sequences, FiniteSets, TLC

\* ------------------------------------------------------------------ bounds

\* Longest text handed to chunk_text in SpecChunk.
MaxLen == 4
\* Largest max_chars handed to chunk_text in SpecChunk.
MaxChars == 2

\* ------------------------------------------------------------- characters

LF == "LF"
CR == "CR"
\* A letter, the two boundary characters chunk_text looks for, and the
\* whitespace characters str.strip() removes.
Alphabet == {"a", " ", ".", ";", LF, CR}

IsSpace(c) == c \in {" ", LF, CR}

RECURSIVE SeqsUpTo(_, _)
SeqsUpTo(S, n) ==
    IF n = 0 THEN {<<>>}
    ELSE LET shorter == SeqsUpTo(S, n - 1)
         IN  shorter \cup {Append(s, c) : s \in {t \in shorter : Len(t) = n - 1}, c \in S}

\* ---------------------------------------------------------- str operations

\* text[i] with Python's 0-based index.
At(t, i) == t[i + 1]

\* text[a:b] with Python's 0-based, end-exclusive slice (b clipped to len).
Slice(t, a, b) == SubSeq(t, a + 1, IF b > Len(t) THEN Len(t) ELSE b)

RECURSIVE LStrip(_)
LStrip(t) == IF t # <<>> /\ IsSpace(Head(t)) THEN LStrip(Tail(t)) ELSE t

RECURSIVE RStrip(_)
RStrip(t) ==
    IF t # <<>> /\ IsSpace(t[Len(t)]) THEN RStrip(SubSeq(t, 1, Len(t) - 1)) ELSE t

\* str.strip()
Strip(t) == RStrip(LStrip(t))

\* text.replace("\r\n", " ")
RECURSIVE ReplaceCRLF(_)
ReplaceCRLF(t) ==
    IF t = <<>> THEN <<>>
    ELSE IF Len(t) >= 2 /\ t[1] = CR /\ t[2] = LF
         THEN <<" ">> \o ReplaceCRLF(SubSeq(t, 3, Len(t)))
         ELSE <<t[1]>> \o ReplaceCRLF(Tail(t))

\* text.replace("\n", " ")
ReplaceLF(t) == [i \in 1..Len(t) |-> IF t[i] = LF THEN " " ELSE t[i]]

\* chunk_text line 44
Normalize(t) == ReplaceLF(ReplaceCRLF(t))

\* text.rfind(ch, start, end): the highest index in [start, end) holding ch, or -1.
RFind(t, ch, start, end) ==
    LET hits == {i \in start..(end - 1) : i < Len(t) /\ At(t, i) = ch}
    IN  IF hits = {} THEN -1 ELSE CHOOSE i \in hits : \A j \in hits : j <= i

\* ------------------------------------------------------------- chunk_text

\* Lines 54-58: the boundary index of the window [start, end).
SplitAt(t, start, end) ==
    LET dot  == RFind(t, ".", start, end)
        semi == RFind(t, ";", start, end)
    IN  IF dot # -1 THEN dot ELSE IF semi # -1 THEN semi ELSE end

\* A cut that leaves the boundary character out of the slice.
CutSliceExclusive(t, start, split_at) == Slice(t, start, split_at)

\* Line 59: the slice cut at the boundary, before .strip().
CutSlice(t, start, split_at) == Slice(t, start, split_at + 1)

\* A cursor that stays on the boundary character.
NextStartOnBoundary(split_at) == split_at

\* Line 61: the cursor after the cut.
NextStart(split_at) == split_at + 1

\* Lines 49-61 as a function of the cursor: the chunks cut from start on.
RECURSIVE ChunkFrom(_, _, _)
ChunkFrom(t, max_chars, start) ==
    IF start >= Len(t) THEN <<>>
    ELSE LET end == start + max_chars
         IN  IF end >= Len(t)
             THEN <<Strip(Slice(t, start, Len(t)))>>
             ELSE LET split_at == SplitAt(t, start, end)
                  IN  <<Strip(CutSlice(t, start, split_at))>>
                          \o ChunkFrom(t, max_chars, NextStart(split_at))

\* chunk_text(text, max_chars), lines 42-62, as a function.
ChunkText(s, max_chars) ==
    LET t == Normalize(s)
    IN  IF Len(t) <= max_chars THEN <<Strip(t)>> ELSE ChunkFrom(t, max_chars, 0)

VARIABLES
    c_input,    \* chunk_text: the text argument
    c_max,      \* chunk_text: max_chars
    c_text,     \* chunk_text: text after line 44
    c_start,    \* chunk_text: start
    c_chunks,   \* chunk_text: chunks (each stripped, as appended)
    c_raw,      \* the same slices before .strip()
    c_iter,     \* iterations of the while loop so far
    c_pc        \* "entry", "loop" or "done"

cvars == <<c_input, c_max, c_text, c_start, c_chunks, c_raw, c_iter, c_pc>>

VARIABLES
    form_text,        \* summarize: request.form.get('text', '') before .strip()
    uploaded_file,    \* summarize: request.files.get('file')
    text,             \* summarize / summarize_long_text_iterative: text
    chunks,           \* summarize_long_text_iterative: chunks
    chunk_summaries,  \* summarize_long_text_iterative: chunk_summaries
    chunk_i,          \* summarize_long_text_iterative: the loop's 1-based index i
    calls,            \* the requests the generation service has received, in order
    response,         \* what summarize returned, or NoResponse
    pc                \* "request", "chunks", "merge" or "responded"

rvars == <<form_text, uploaded_file, text, chunks, chunk_summaries, chunk_i, calls, response, pc>>

VARIABLES
    fs_path,     \* the inode "temp_upload.docx" names, or NoInode
    fs_content,  \* the bytes each inode holds
    k_doc,       \* per request: the document it uploaded
    k_fd,        \* per request: the inode its open file object writes to
    k_text,      \* per request: what docx2txt.process returned
    k_pc         \* per request: its position in extract_text_from_docx

kvars == <<fs_path, fs_content, k_doc, k_fd, k_text, k_pc>>

vars == <<cvars, rvars, kvars>>

\* The variables of the parts a specification leaves out stay at these values.
NoResponse == [status |-> 0]
NoFile == [filename |-> <<>>]
NoInode == 0
None == "None"

ChunkIdle ==
    /\ c_input = <<>> /\ c_max = 1 /\ c_text = <<>> /\ c_start = 0
    /\ c_chunks = <<>> /\ c_raw = <<>> /\ c_iter = 0 /\ c_pc = "idle"

ReqIdle ==
    /\ form_text = <<>> /\ uploaded_file = NoFile /\ text = <<>> /\ chunks = <<>>
    /\ chunk_summaries = <<>> /\ chunk_i = 0 /\ calls = <<>> /\ response = NoResponse
    /\ pc = "idle"

ConcIdle ==
    /\ fs_path = NoInode /\ fs_content = <<>> /\ k_doc = <<>> /\ k_fd = <<>>
    /\ k_text = <<>> /\ k_pc = <<>>

ChunkInputs == SeqsUpTo(Alphabet, MaxLen)

ChunkInit ==
    /\ c_input \in ChunkInputs
    /\ c_max \in 1..MaxChars
    /\ c_text = <<>>
    /\ c_start = 0
    /\ c_chunks = <<>>
    /\ c_raw = <<>>
    /\ c_iter = 0
    /\ c_pc = "entry"
    /\ ReqIdle
    /\ ConcIdle

\* Lines 44-48: normalise; a short text is returned whole.
ChunkEntry ==
    /\ c_pc = "entry"
    /\ c_text' = Normalize(c_input)
    /\ IF Len(c_text') <= c_max
       THEN /\ c_chunks' = <<Strip(c_text')>>
            /\ c_raw' = <<c_text'>>
            /\ c_pc' = "done"
       ELSE /\ c_chunks' = <<>>
            /\ c_raw' = <<>>
            /\ c_pc' = "loop"
    /\ c_start' = 0
    /\ UNCHANGED <<c_input, c_max, c_iter, rvars, kvars>>

\* Lines 49-61: one iteration of the while loop.
ChunkLoop ==
    /\ c_pc = "loop"
    /\ c_start < Len(c_text)
    /\ LET end == c_start + c_max
       IN  IF end >= Len(c_text)
           THEN /\ c_chunks' = Append(c_chunks, Strip(Slice(c_text, c_start, Len(c_text))))
                /\ c_raw' = Append(c_raw, Slice(c_text, c_start, Len(c_text)))
                /\ c_start' = c_start
                /\ c_pc' = "done"
           ELSE LET split_at == SplitAt(c_text, c_start, end)
                IN  /\ c_chunks' = Append(c_chunks, Strip(CutSlice(c_text, c_start, split_at)))
                    /\ c_raw' = Append(c_raw, CutSlice(c_text, c_start, split_at))
                    /\ c_start' = NextStart(split_at)
                    /\ c_pc' = "loop"
    /\ c_iter' = c_iter + 1
    /\ UNCHANGED <<c_input, c_max, c_text, rvars, kvars>>

\* Line 49 false, line 62: the loop condition fails and chunks is returned.
ChunkExit ==
    /\ c_pc = "loop"
    /\ c_start >= Len(c_text)
    /\ c_pc' = "done"
    /\ UNCHANGED <<c_input, c_max, c_text, c_start, c_chunks, c_raw, c_iter, rvars, kvars>>

ChunkNext == ChunkEntry \/ ChunkLoop \/ ChunkExit

SpecChunk == ChunkInit /\ [][ChunkNext]_vars

\* chunk_text is straight-line sequential code: a call that can take a step
\* takes it.
FairSpecChunk == SpecChunk /\ WF_vars(ChunkNext)

\* ------------------------------------------------- properties of chunk_text

RECURSIVE Concat(_)
Concat(ss) == IF ss = <<>> THEN <<>> ELSE Head(ss) \o Concat(Tail(ss))

HasNoPunctuation(t) == \A i \in 1..Len(t) : t[i] \notin {".", ";"}

\* The stepwise loop and the function ChunkText agree on every input.
LoopAgreesWithChunkText ==
    c_pc = "done" => c_chunks = ChunkText(c_input, c_max)

\* C6: every chunk chunk_text returns has at most max_chars characters; for
\* a text longer than max_chars without '.' or ';', every slice but the last
\* has exactly max_chars characters before trimming and the last at most
\* max_chars.
C6_ChunksWithinMaxChars ==
    /\ \A k \in 1..Len(c_chunks) : Len(c_chunks[k]) <= c_max
    /\ (c_pc = "done" /\ Len(c_text) > c_max /\ HasNoPunctuation(c_text)) =>
           /\ \A k \in 1..(Len(c_raw) - 1) : Len(c_raw[k]) = c_max
           /\ Len(c_raw[Len(c_raw)]) <= c_max

\* C7: the untrimmed slices are contiguous, in order and non-overlapping:
\* while the loop runs they concatenate to the text before the cursor, and
\* on return to the whole normalised text, which holds no line feed and
\* differs from the input only where a line break stood.
C7_SlicesPartitionText ==
    /\ c_pc = "loop" => Concat(c_raw) = Slice(c_text, 0, c_start)
    /\ c_pc = "done" =>
           /\ Concat(c_raw) = c_text
           /\ \A i \in 1..Len(c_text) : c_text[i] # LF
           /\ (\A i \in 1..Len(c_input) : c_input[i] # LF) => c_text = c_input

\* A returned run with one cut on '.', one on ';' and one at the window end.
C7_Witness ==
    /\ c_pc = "done"
    /\ Len(c_raw) >= 3
    /\ \E k \in 1..Len(c_raw) : c_raw[k] # <<>> /\ c_raw[k][Len(c_raw[k])] = "."
    /\ \E k \in 1..Len(c_raw) : c_raw[k] # <<>> /\ c_raw[k][Len(c_raw[k])] = ";"
    /\ \E k \in 1..(Len(c_raw) - 1) : Len(c_raw[k]) = c_max + 1 /\ HasNoPunctuation(c_raw[k])

\* C8: every iteration of the loop either returns or moves the cursor
\* strictly forward, the loop runs at most len(text) times, and chunk_text
\* returns.
C8_LoopTerminates ==
    /\ [][ChunkLoop => (c_pc' = "done" \/ c_start' > c_start)]_vars
    /\ [](c_iter <= Len(c_text) /\ c_start <= Len(c_text))
    /\ <>(c_pc = "done")

\* The loop has cut at a '.' or ';' that stood at the cursor itself and has
\* gone on.
C8_Witness ==
    /\ c_pc = "loop"
    /\ c_iter >= 2
    /\ \E k \in 1..Len(c_raw) : Len(c_raw[k]) = 1 /\ c_raw[k][1] \in {".", ";"}

\* C10: for a text longer than max_chars, no chunk but possibly the last is
\* empty after trimming.
C10_NonFinalChunksNonEmpty ==
    (c_pc = "done" /\ Len(c_text) > c_max) =>
        \A k \in 1..(Len(c_chunks) - 1) : c_chunks[k] # <<>>


\* ------------------------------------------------------------ call_ollama

\* Longest 'text' form field of a request in Spec.
MaxFormLen == 4
\* max_chars that summarize_long_text_iterative hands to chunk_text (3000 at
\* line 84), scaled down to the length of the texts above.
SummarizeMaxChars == 1

\* One line of the service's streamed reply (lines 70-79).
BlankLine == [kind |-> "blank", response |-> <<>>]
UndecodableLine == [kind |-> "undecodable", response |-> <<>>]
OtherJsonLine == [kind |-> "json", response |-> <<>>]
ResponseLine(r) == [kind |-> "json_response", response |-> r]

\* What the generation service can do with one request: refuse the
\* connection, answer with an error status, fail in some other way, or
\* stream lines.
Replies ==
    { [outcome |-> "connection_error", lines |-> <<>>],
      [outcome |-> "http_error", lines |-> <<>>],
      [outcome |-> "unexpected_error", lines |-> <<>>],
      [outcome |-> "ok", lines |-> <<UndecodableLine, BlankLine, OtherJsonLine>>],
      [outcome |-> "ok", lines |-> <<ResponseLine(<<" ", "s">>), UndecodableLine,
                                      ResponseLine(<<"s", " ">>)>>] }

\* Lines 69-79: full_output after the loop over res.iter_lines().
RECURSIVE Accumulate(_)
Accumulate(lines) ==
    IF lines = <<>> THEN <<>>
    ELSE (IF Head(lines).kind = "json_response" THEN Head(lines).response ELSE <<>>)
             \o Accumulate(Tail(lines))

\* str(e) of the exception a failed call raises.
Describe(outcome) ==
    CASE outcome = "connection_error" -> "ConnectionError"
      [] outcome = "http_error" -> "HTTPError"
      [] OTHER -> "Exception"

\* isinstance(e, requests.exceptions.RequestException), line 149.
IsRequestException(e) == e \in {"ConnectionError", "HTTPError"}

\* call_ollama, lines 64-80: the stripped output, or the exception raised
\* by requests.post / raise_for_status.
CallOllama(reply) ==
    IF reply.outcome = "ok"
    THEN [raised |-> FALSE, exc |-> None, value |-> Strip(Accumulate(reply.lines))]
    ELSE [raised |-> TRUE, exc |-> Describe(reply.outcome), value |-> <<>>]

\* ---------------------------------------- summarize_long_text_iterative

\* f"[ERROR: {e}]", line 95.
ErrorMarker(e) == <<"[ERROR: ", e, "]">>

IsErrorMarker(s) == Len(s) = 3 /\ s[1] = "[ERROR: " /\ s[3] = "]"

\* A handler that drops the failure instead of recording it.
ChunkSummaryDropsError(result) ==
    IF result.raised THEN <<>> ELSE Strip(result.value)

\* Lines 92-96: the entry appended for one chunk.
ChunkSummary(result) ==
    Strip(IF result.raised THEN ErrorMarker(result.exc) ELSE result.value)

\* Lines 88-91: the prompt for chunk index of total.
ChunkPrompt(index, total, ch) ==
    [kind |-> "chunk", index |-> index, total |-> total, body |-> ch, entries |-> <<>>]

\* Line 103: the label of the entry enumerate() numbers j (from 0).
EntryLabel(j) == j + 1

\* Lines 103-108: the merge prompt, one labelled entry per chunk summary.
MergePrompt(summaries) ==
    [kind |-> "merge", index |-> 0, total |-> Len(summaries), body |-> <<>>,
     entries |-> [j \in 1..Len(summaries) |->
                     [label |-> EntryLabel(j - 1), summary |-> summaries[j]]]]

\* A test that sends every run to the merge call.
AlwaysSingleFalse(summaries) == FALSE

\* Line 99: a single chunk summary is returned as it is.
IsSingle(summaries) == Len(summaries) = 1

\* ------------------------------------------------------------- extractors

\* filename.lower(), line 125, character by character.
LowerChar(c) ==
    CASE c = "PDF" -> "pdf"
      [] c = "Docx" -> "docx"
      [] OTHER -> c

Lower(name) == [j \in 1..Len(name) |-> LowerChar(name[j])]

\* str.endswith
EndsWith(name, suffix) ==
    /\ Len(name) >= Len(suffix)
    /\ SubSeq(name, Len(name) - Len(suffix) + 1, Len(name)) = suffix

\* "\n".join(parts)
RECURSIVE JoinLF(_)
JoinLF(parts) ==
    IF parts = <<>> THEN <<>>
    ELSE IF Len(parts) = 1 THEN parts[1]
    ELSE parts[1] \o <<LF>> \o JoinLF(Tail(parts))

\* extract_text_from_pdf, lines 18-26: the pages that yield text, joined.
ExtractPdf(pages) == JoinLF(SelectSeq(pages, LAMBDA pg : pg # <<>>))

\* docx2txt.process at line 33: the paragraphs' text, None without any.
DocxProcess(pages) == IF pages = <<>> THEN None ELSE JoinLF(pages)

\* extract_text_from_docx, line 35: text or "".
ExtractDocx(pages) ==
    LET t == DocxProcess(pages) IN IF t = None \/ t = <<>> THEN <<>> ELSE t

\* extract_text_from_txt, lines 37-40: decode, dropping undecodable bytes.
ExtractTxt(pages) == SelectSeq(JoinLF(pages), LAMBDA b : b # "xFF")

\* The uploads of a request: none, or a file name with what its bytes hold
\* (a list of page or paragraph texts), or bytes no reader can parse.
Filenames ==
    { <<"r", ".", "PDF">>, <<"n", ".", "Docx">>, <<"a", ".", "txt">>,
      <<"m", ".", "rtf">>, <<"pdf">> }

PageLists ==
    { <<>>, << <<>> >>, << <<" ">> >>, << <<"a", ".">>, <<>>, <<"a">> >>, << <<"xFF">> >> }

Uploads ==
    {NoFile} \cup
    {[filename |-> f, corrupt |-> FALSE, pages |-> pg] : f \in Filenames, pg \in PageLists}
    \cup {[filename |-> f, corrupt |-> TRUE, pages |-> <<>>] : f \in Filenames}

\* A test that takes any file name.
ExtensionAlwaysSupported(filename) == TRUE

\* Lines 128-135: the extensions summarize accepts.
ExtensionSupported(filename) ==
    \/ EndsWith(filename, <<".", "pdf">>)
    \/ EndsWith(filename, <<".", "docx">>)
    \/ EndsWith(filename, <<".", "txt">>)

\* Lines 128-133: the extractor chosen by extension; PdfReader and docx2txt
\* raise on bytes they cannot parse.
Extract(file) ==
    LET filename == Lower(file.filename)
    IN  IF EndsWith(filename, <<".", "pdf">>)
        THEN IF file.corrupt THEN [raised |-> TRUE, value |-> <<>>]
             ELSE [raised |-> FALSE, value |-> ExtractPdf(file.pages)]
        ELSE IF EndsWith(filename, <<".", "docx">>)
        THEN IF file.corrupt THEN [raised |-> TRUE, value |-> <<>>]
             ELSE [raised |-> FALSE, value |-> ExtractDocx(file.pages)]
        ELSE [raised |-> FALSE, value |-> ExtractTxt(file.pages)]

\* ---------------------------------------------------------- /summarize

FormAlphabet == {"a", " ", "."}
FormTexts == SeqsUpTo(FormAlphabet, MaxFormLen)

\* jsonify(...) with its status code.
ErrorResponse(status, error) == [status |-> status, body |-> [error |-> error]]
DetailedError(error, details) ==
    [status |-> 500, body |-> [error |-> error, details |-> details]]
SummaryResponse(summary) == [status |-> 200, body |-> [summary |-> summary]]
\* The framework's answer to an exception summarize does not catch.
UnhandledResponse == [status |-> 500, body |-> [html |-> "Internal Server Error"]]

\* Lines 149-152: the server-error response for an exception e.
SummarizeFailure(e) ==
    IF IsRequestException(e)
    THEN DetailedError("Failed to contact Ollama API", e)
    ELSE DetailedError("Error during summarization", e)

ReqInit ==
    /\ form_text \in FormTexts
    /\ uploaded_file \in Uploads
    /\ text = <<>>
    /\ chunks = <<>>
    /\ chunk_summaries = <<>>
    /\ chunk_i = 0
    /\ calls = <<>>
    /\ response = NoResponse
    /\ pc = "request"
    /\ ChunkIdle
    /\ ConcIdle

\* Truthiness of uploaded_file at line 124: a file with a file name.
FilePresent(file) == file.filename # <<>>

\* Lines 121-144, 148, 84-85: the input is read; the request is answered
\* with an error, or the text is chunked and the loop over chunks begins.
HandleInput ==
    /\ pc = "request"
    /\ LET raw_text == Strip(form_text)
           enter(t) ==
               /\ text' = t
               /\ chunks' = ChunkText(t, SummarizeMaxChars)
               /\ chunk_i' = 1
               /\ pc' = "chunks"
               /\ response' = response
           answer(r) ==
               /\ response' = r
               /\ pc' = "responded"
               /\ UNCHANGED <<text, chunks, chunk_i>>
       IN  IF FilePresent(uploaded_file)
           THEN IF ~ExtensionSupported(Lower(uploaded_file.filename))
                THEN answer(ErrorResponse(400, "Unsupported file type. Allowed: .pdf, .docx, .txt"))
                ELSE LET got == Extract(uploaded_file)
                     IN  IF got.raised THEN answer(UnhandledResponse)
                         ELSE IF Strip(got.value) = <<>>
                         THEN answer(ErrorResponse(400, "Could not extract text from file"))
                         ELSE enter(got.value)
           ELSE IF raw_text # <<>>
                THEN enter(raw_text)
                ELSE answer(ErrorResponse(400, "No text or file provided"))
    /\ UNCHANGED <<form_text, uploaded_file, chunk_summaries, calls, cvars, kvars>>

\* Lines 87-96: one iteration of the loop over chunks, with its completion
\* call.
SummarizeChunk ==
    /\ pc = "chunks"
    /\ chunk_i <= Len(chunks)
    /\ \E reply \in Replies :
          LET prompt == ChunkPrompt(chunk_i, Len(chunks), chunks[chunk_i])
          IN  /\ calls' = Append(calls, [prompt |-> prompt, reply |-> reply])
              /\ chunk_summaries' = Append(chunk_summaries, ChunkSummary(CallOllama(reply)))
    /\ chunk_i' = chunk_i + 1
    /\ UNCHANGED <<form_text, uploaded_file, text, chunks, response, pc, cvars, kvars>>

\* Lines 99-100 and 154: a single chunk summary is the summary returned.
ReturnSingle ==
    /\ pc = "chunks"
    /\ chunk_i > Len(chunks)
    /\ IsSingle(chunk_summaries)
    /\ response' = SummaryResponse(chunk_summaries[1])
    /\ pc' = "responded"
    /\ UNCHANGED <<form_text, uploaded_file, text, chunks, chunk_summaries, chunk_i,
                   calls, cvars, kvars>>

\* Lines 103-110 and 147-154: the merge call; its failure reaches the
\* handlers of summarize.
Merge ==
    /\ pc = "chunks"
    /\ chunk_i > Len(chunks)
    /\ ~IsSingle(chunk_summaries)
    /\ \E reply \in Replies :
          LET result == CallOllama(reply)
          IN  /\ calls' = Append(calls, [prompt |-> MergePrompt(chunk_summaries),
                                         reply |-> reply])
              /\ response' = IF result.raised THEN SummarizeFailure(result.exc)
                             ELSE SummaryResponse(Strip(result.value))
    /\ pc' = "responded"
    /\ UNCHANGED <<form_text, uploaded_file, text, chunks, chunk_summaries, chunk_i,
                   cvars, kvars>>

Next == HandleInput \/ SummarizeChunk \/ ReturnSingle \/ Merge

Spec == ReqInit /\ [][Next]_vars


\* --------------------------------------------- properties of /summarize

\* The request reached summarize_long_text_iterative.
Summarizing == chunks # <<>>

\* The run of summarize_long_text_iterative is over.
Finished == pc = "responded" /\ Summarizing

Failed(call) == call.reply.outcome # "ok"

\* The stripped text the service streamed in answer to a call.
OutputOf(call) == Strip(Accumulate(call.reply.lines))

\* C1: one completion call per chunk, in chunk order and none repeated,
\* whether calls fail or not; for more than one chunk exactly one merge call,
\* after all of them; for one chunk no merge call, and the summary returned
\* is what that one call gave.
C1_OneCallPerChunkThenMerge ==
    Summarizing =>
        LET n == Len(chunks)
        IN  /\ n >= 1
            /\ Len(calls) <= (IF n > 1 THEN n + 1 ELSE 1)
            /\ pc = "chunks" => Len(calls) = chunk_i - 1 /\ Len(calls) <= n
            /\ \A k \in 1..Len(calls) :
                  IF k <= n
                  THEN calls[k].prompt = ChunkPrompt(k, n, chunks[k])
                  ELSE calls[k].prompt.kind = "merge"
            /\ pc = "responded" => Len(calls) = (IF n > 1 THEN n + 1 ELSE 1)
            /\ (pc = "responded" /\ n = 1) =>
                  /\ calls[1].prompt.kind = "chunk"
                  /\ response.status = 200
                  /\ ~Failed(calls[1]) => response.body.summary = OutputOf(calls[1])
                  /\ Failed(calls[1]) => IsErrorMarker(response.body.summary)

\* A finished run over three chunks: three chunk calls, one of them failed,
\* and the merge call.
C1_Witness ==
    /\ Finished
    /\ Len(chunks) = 3
    /\ Len(calls) = 4
    /\ \E k \in 1..3 : Failed(calls[k])
    /\ \E k \in 1..3 : ~Failed(calls[k])

\* C2: a failed chunk call does not end the run: the chunk summaries keep
\* the length and order of the chunks, the entry of a failed call is the
\* error marker with the failure's description, and the merge prompt lists
\* every entry, labelled 1..N in order.
C2_FailedChunkKeepsItsPlace ==
    Summarizing =>
        LET n == Len(chunks)
        IN  /\ Len(chunk_summaries) <= n
            /\ pc = "chunks" => Len(chunk_summaries) = chunk_i - 1
            /\ pc = "responded" => Len(chunk_summaries) = n
            /\ \A k \in 1..Len(chunk_summaries) :
                  /\ calls[k].prompt.index = k
                  /\ calls[k].prompt.body = chunks[k]
                  /\ chunk_summaries[k] =
                        IF Failed(calls[k])
                        THEN <<"[ERROR: ", Describe(calls[k].reply.outcome), "]">>
                        ELSE OutputOf(calls[k])
            /\ Len(calls) > n =>
                  /\ n > 1
                  /\ Len(calls[n + 1].prompt.entries) = n
                  /\ \A k \in 1..n :
                        calls[n + 1].prompt.entries[k] =
                            [label |-> k, summary |-> chunk_summaries[k]]

\* Chunk 2 of 3 failed, chunks 1 and 3 did not, and the merge call was made.
C2_Witness ==
    /\ Finished
    /\ Len(chunks) = 3
    /\ ~Failed(calls[1]) /\ Failed(calls[2]) /\ ~Failed(calls[3])
    /\ Len(calls) = 4
    /\ IsErrorMarker(calls[4].prompt.entries[2].summary)

\* C3: a valid request during which the generation service failed is
\* answered with status 500 and a body holding "error" and "details", never
\* with a "summary".
C3_ServiceFailureIsServerError ==
    (Finished /\ \E k \in 1..Len(calls) : Failed(calls[k])) =>
        /\ response.status = 500
        /\ {"error", "details"} \subseteq DOMAIN response.body
        /\ "summary" \notin DOMAIN response.body

TextGiven == Strip(form_text) # <<>>
FileGiven == uploaded_file.filename # <<>>

\* The file name ends, in any letter case, with .pdf, .docx or .txt.
HasAllowedExtension ==
    LET fn == uploaded_file.filename
    IN  /\ Len(fn) >= 2
        /\ fn[Len(fn) - 1] = "."
        /\ fn[Len(fn)] \in {"pdf", "PDF", "docx", "Docx", "txt"}

\* The file's extracted text is empty or whitespace only.
ExtractionBlank ==
    /\ FileGiven /\ HasAllowedExtension
    /\ ~Extract(uploaded_file).raised
    /\ Strip(Extract(uploaded_file).value) = <<>>

ExtractionRaised == FileGiven /\ HasAllowedExtension /\ Extract(uploaded_file).raised

IsClientError(r) == r.status = 400 /\ "error" \in DOMAIN r.body

\* C4 as stated: a request is summarized only when exactly one of text and
\* file is given; with neither, with both, with an unsupported extension or
\* with a blank extraction the answer is a client error and no completion
\* call is made.  (Files no reader can parse are left aside.)
C4_ExactlyOneInputOrClientError ==
    (pc = "responded" /\ ~ExtractionRaised) =>
        /\ calls # <<>> => (TextGiven /\ ~FileGiven) \/ (FileGiven /\ ~TextGiven)
        /\ ( \/ (~TextGiven /\ ~FileGiven)
             \/ (TextGiven /\ FileGiven)
             \/ (FileGiven /\ ~HasAllowedExtension)
             \/ ExtractionBlank )
           => IsClientError(response) /\ calls = <<>>

\* C4 as the code has it: an uploaded file takes precedence and the text
\* field is then ignored.  A request is summarized exactly when it has a
\* file with a supported extension whose extracted text is not blank, or no
\* file and a non-blank text.  With neither, with an unsupported extension
\* or with a blank extraction the answer is a client error, the blank
\* extraction's error differs from the nothing-provided error, and no
\* completion call is made.
C4_FileTakesPrecedence ==
    pc = "responded" =>
        LET usable == FileGiven /\ HasAllowedExtension /\ ~ExtractionRaised /\ ~ExtractionBlank
        IN  /\ Summarizing <=> (usable \/ (~FileGiven /\ TextGiven))
            /\ calls # <<>> <=> Summarizing
            /\ usable => text = Extract(uploaded_file).value
            /\ (~FileGiven /\ TextGiven) => text = Strip(form_text)
            /\ (~FileGiven /\ ~TextGiven) =>
                  response = ErrorResponse(400, "No text or file provided")
            /\ (FileGiven /\ ~HasAllowedExtension) => IsClientError(response)
            /\ ExtractionBlank =>
                  /\ IsClientError(response)
                  /\ response.body.error # "No text or file provided"

\* A request that gave both a text and a usable file was summarized from the
\* file.
C4_Witness ==
    /\ Finished
    /\ TextGiven /\ FileGiven
    /\ text # Strip(form_text)
    /\ response.status = 200

AllCallsFailed == \A k \in 1..Len(calls) : Failed(calls[k])

ContainsErrorMarker(s) ==
    \E a \in 1..Len(s) : a + 2 <= Len(s) /\ IsErrorMarker(SubSeq(s, a, a + 2))

\* C5: every run of the summarizer produces a final summary; it is not empty
\* unless every completion call failed, and then it holds the error markers.
C5_FinalSummaryAlwaysProduced ==
    Finished =>
        /\ "summary" \in DOMAIN response.body
        /\ response.body.summary = <<>> => AllCallsFailed
        /\ AllCallsFailed => ContainsErrorMarker(response.body.summary)


\* ------------------------------------- concurrent extract_text_from_docx

\* Requests served at the same time, each with a DOCX upload.
Requests == {1, 2}

\* What the uploaded documents hold (their paragraphs).
ConcDocs == { << <<"a">> >>, << <<"b", ".">> >>, <<>> }

\* An inode that open() created or truncated and nobody wrote yet.
NoBytes == "NoBytes"

ConcInit ==
    /\ fs_path = NoInode
    /\ fs_content = <<>>
    /\ k_doc \in [Requests -> ConcDocs]
    /\ k_fd = [r \in Requests |-> NoInode]
    /\ k_text = [r \in Requests |-> None]
    /\ k_pc = [r \in Requests |-> "open"]
    /\ ChunkIdle
    /\ ReqIdle

\* Line 30: the path every request uses.  A request-private path would be
\* another name per request; the model has the one name of the source.
\* Line 31: open(temp_path, "wb") creates the file or truncates it.
ConcOpen(r) ==
    /\ k_pc[r] = "open"
    /\ IF fs_path = NoInode
       THEN /\ fs_content' = Append(fs_content, NoBytes)
            /\ fs_path' = Len(fs_content) + 1
            /\ k_fd' = [k_fd EXCEPT ![r] = Len(fs_content) + 1]
       ELSE /\ fs_content' = [fs_content EXCEPT ![fs_path] = NoBytes]
            /\ fs_path' = fs_path
            /\ k_fd' = [k_fd EXCEPT ![r] = fs_path]
    /\ k_pc' = [k_pc EXCEPT ![r] = "write"]
    /\ UNCHANGED <<k_doc, k_text, cvars, rvars>>

\* Line 32 and the end of the with block: the upload's bytes reach the inode
\* the file object holds, whatever the path names by now.
ConcWrite(r) ==
    /\ k_pc[r] = "write"
    /\ fs_content' = [fs_content EXCEPT ![k_fd[r]] = k_doc[r]]
    /\ k_pc' = [k_pc EXCEPT ![r] = "process"]
    /\ UNCHANGED <<fs_path, k_doc, k_fd, k_text, cvars, rvars>>

\* Line 33: docx2txt.process(temp_path) reads what the path names now; it
\* raises when the path names nothing or names a file without bytes.
ConcProcess(r) ==
    /\ k_pc[r] = "process"
    /\ IF fs_path = NoInode \/ fs_content[fs_path] = NoBytes
       THEN /\ k_pc' = [k_pc EXCEPT ![r] = "failed"]
            /\ k_text' = k_text
       ELSE /\ k_pc' = [k_pc EXCEPT ![r] = "remove"]
            /\ k_text' = [k_text EXCEPT ![r] = DocxProcess(fs_content[fs_path])]
    /\ UNCHANGED <<fs_path, fs_content, k_doc, k_fd, cvars, rvars>>

\* Line 34: os.remove(temp_path) raises when the path names nothing.
ConcRemove(r) ==
    /\ k_pc[r] = "remove"
    /\ IF fs_path = NoInode
       THEN /\ k_pc' = [k_pc EXCEPT ![r] = "failed"]
            /\ fs_path' = fs_path
       ELSE /\ k_pc' = [k_pc EXCEPT ![r] = "return"]
            /\ fs_path' = NoInode
    /\ UNCHANGED <<fs_content, k_doc, k_fd, k_text, cvars, rvars>>

\* Line 35: return text or "".
ConcReturn(r) ==
    /\ k_pc[r] = "return"
    /\ k_text' = [k_text EXCEPT ![r] = IF k_text[r] = None THEN <<>> ELSE k_text[r]]
    /\ k_pc' = [k_pc EXCEPT ![r] = "done"]
    /\ UNCHANGED <<fs_path, fs_content, k_doc, k_fd, cvars, rvars>>

ConcNext ==
    \E r \in Requests :
        ConcOpen(r) \/ ConcWrite(r) \/ ConcProcess(r) \/ ConcRemove(r) \/ ConcReturn(r)

SpecConc == ConcInit /\ [][ConcNext]_vars

\* C9: under every interleaving, each of two concurrent DOCX uploads ends as
\* it would alone: it extracts the text of its own document and does not
\* fail because of the other's write, read or removal of the temporary file.
C9_ConcurrentUploadsIndependent ==
    \A r \in Requests :
        /\ k_pc[r] # "failed"
        /\ k_pc[r] = "done" => k_text[r] = ExtractDocx(k_doc[r])

====
